---- MODULE Spec2Model ----
(***************************************************************************)
(* Model of tree.py: Lexer.tokenize, the recursive descent Parser          *)
(* (term / factor / primary), Node.postorder_apply and ausrechnen.         *)
(* One behaviour is one run of the pipeline on one input string.           *)
(***************************************************************************)
EXTENDS Integers, Sequences, FiniteSets, TLC

(* ---------------------------- bounds ----------------------------------- *)
\* longest arbitrary input string
MaxLen == 4
\* largest number of operands of a generated expression N1 op1 ... Nk
MaxOperands == 3
\* longest run of separator characters between two tokens
MaxPad == 1

(* ---------------------------- values ----------------------------------- *)
\* A Python value held by Token.value / Node.value: an int or a str.
IntV(n) == [kind |-> "int", n |-> n, s |-> ""]
StrV(s) == [kind |-> "str", n |-> 0, s |-> s]

\* None for an Optional[Node] reference; nodes are numbered from 1.
None == 0

(* ---------------------------- characters ------------------------------- *)
Digits == {"0", "1", "2", "3", "4", "5", "6", "7", "8", "9"}

DigitVal(c) ==
    CASE c = "0" -> 0 [] c = "1" -> 1 [] c = "2" -> 2 [] c = "3" -> 3
      [] c = "4" -> 4 [] c = "5" -> 5 [] c = "6" -> 6 [] c = "7" -> 7
      [] c = "8" -> 8 [] c = "9" -> 9

\* str.isspace() on the characters the inputs are drawn from
IsSpace(c) == c \in {" ", "\t", "\n"}

\* length of the run of digits of s that starts at index i (1-based)
RECURSIVE DigitRun(_, _)
DigitRun(s, i) ==
    IF i <= Len(s) /\ s[i] \in Digits THEN 1 + DigitRun(s, i + 1) ELSE 0

\* re.match(r"(-?\d+)", s[i:]): length of the match, 0 when there is none
NumberMatch(s, i) ==
    IF s[i] = "-"
    THEN (IF DigitRun(s, i + 1) > 0 THEN 1 + DigitRun(s, i + 1) ELSE 0)
    ELSE DigitRun(s, i)

\* decimal value of the digits s[i .. j]
RECURSIVE Decimal(_, _, _)
Decimal(s, i, j) ==
    IF j < i THEN 0 ELSE 10 * Decimal(s, i, j - 1) + DigitVal(s[j])

\* int(m[0]) for the match of length n at index i
IntOf(s, i, n) ==
    IF s[i] = "-" THEN 0 - Decimal(s, i + 1, i + n - 1)
    ELSE Decimal(s, i, i + n - 1)

OPERATOR == {"+", "*"}

(* ---------------------------- tokens ----------------------------------- *)
Token(type, value, line, column) ==
    [type |-> type, value |-> value, line |-> line, column |-> column]

\* the None that peek() and consume() return at the end of the buffer
NoToken == Token("None", StrV(""), -1, -1)

\* the fields of a Token that take part in == (line, column: compare=False)
Key(t) == <<t.type, t.value>>

\* the EOL token given the type of the EOF token, whose value it shares
EolToken_AsEof(line, column) == Token("EOF", StrV("\n"), line, column)

EolToken(line, column) == Token("EOL", StrV("\n"), line, column)

EofToken(line, column) == Token("EOF", StrV("\n"), line, column)

(* ---------------------------- inputs ----------------------------------- *)
\* characters of the arbitrary input strings
Alphabet == {"1", "-", "+", "*", " ", "\n", "#"}

\* integer literals of the generated expressions, with the value they denote
Lits ==
    { [text |-> <<"-", "2">>, val |-> -2],
      [text |-> <<"3">>, val |-> 3],
      [text |-> <<"1", "0">>, val |-> 10] }

Rep(c, n) == [i \in 1..n |-> c]

\* separators between two tokens: runs of spaces or of newlines
Seps == { Rep(c, n) : c \in {" ", "\n"}, n \in 0..MaxPad }

\* the text N1 sep op1 sep N2 ... Nk of the operands ns[i..] and operators os
RECURSIVE Render(_, _, _, _)
Render(ns, os, sep, i) ==
    IF i = Len(ns) THEN ns[i].text
    ELSE ns[i].text \o sep \o <<os[i]>> \o sep \o Render(ns, os, sep, i + 1)

\* what an input is known to denote: nothing (valid = FALSE), or the
\* expression nums[1] ops[1] nums[2] ... whose tokens are separated by
\* spaces only (ws = "space") or by newlines (ws = "newline")
NoExpr == [valid |-> FALSE, nums |-> <<>>, ops |-> <<>>, ws |-> "none"]

Expr(nums, ops, ws) == [valid |-> TRUE, nums |-> nums, ops |-> ops, ws |-> ws]

WsOf(sep) == IF \E i \in 1..Len(sep) : sep[i] = "\n" THEN "newline" ELSE "space"

ArbitraryInputs ==
    { [input |-> s, expr |-> NoExpr] :
        s \in UNION { [1..n -> Alphabet] : n \in 0..MaxLen } }

ExprInputs ==
    UNION { { [input |-> (IF lead THEN sep ELSE <<>>) \o Render(ns, os, sep, 1),
               expr  |-> Expr([i \in 1..k |-> ns[i].val], os, WsOf(sep))] :
                ns \in [1..k -> Lits], os \in [1..(k - 1) -> OPERATOR],
                sep \in Seps, lead \in BOOLEAN } :
            k \in 1..MaxOperands }

\* the concrete cases of the documentation
ExampleInputs ==
    { [input |-> <<"2", " ", "*", " ", "3", " ", "+", " ", "4", " ", "*", " ", "5">>,
       expr  |-> Expr(<<2, 3, 4, 5>>, <<"*", "+", "*">>, "space")],
      [input |-> <<"1", " ", "+", " ", "2", " ", "+", " ", "3">>,
       expr  |-> Expr(<<1, 2, 3>>, <<"+", "+">>, "space")],
      [input |-> <<"-", "5", " ", "*", " ", "-", "2">>,
       expr  |-> Expr(<<-5, -2>>, <<"*">>, "space")],
      [input |-> <<"3", " ", "+">>, expr |-> NoExpr],
      [input |-> <<"3", " ", "#", " ", "2">>, expr |-> NoExpr],
      [input |-> <<"\n", "\n", "4", " ", "+", " ", "1">>,
       expr  |-> Expr(<<4, 1>>, <<"+">>, "newline")],
      [input |-> <<"4", "\n", "+", " ", "1">>,
       expr  |-> Expr(<<4, 1>>, <<"+">>, "newline")] }

Inputs == ArbitraryInputs \cup ExprInputs \cup ExampleInputs

(* ---------------------------- state ------------------------------------ *)
VARIABLES
    input,      \* Lexer.input, a sequence of characters
    expr,       \* what the input denotes (fixed with the input)
    offset,     \* Lexer.offset
    line,       \* Lexer.line
    column,     \* Lexer.column
    tokens,     \* Parser.tokens, filled by the generator
    pc,         \* position of the pipeline
    pos,        \* Parser.pos
    ppc,        \* production the parser resumes in
    termLeft,   \* local left of term()
    termT,      \* local t of term()
    factorLeft, \* local left of factor()
    factorT,    \* local t of factor()
    ret,        \* value returned by the production that just ended
    t,          \* local t of primary()
    heap,       \* the Node objects, by number
    tree,       \* Parser.tree
    stack,      \* activations of postorder_apply, innermost last
    pass,       \* number of the postorder_apply pass
    applied,    \* nodes fn was called on in this pass, in call order
    results,    \* root value read after each completed pass
    err,        \* what Parser.error printed
    exc         \* exception that ended the run

lexvars == <<offset, line, column, tokens>>

parsevars == <<pos, ppc, termLeft, termT, factorLeft, factorT, ret, t, tree, err>>

evalvars == <<stack, pass, applied, results>>

vars == <<input, expr, lexvars, pc, parsevars, heap, evalvars, exc>>

NoErr == [kind |-> "", line |-> -1, column |-> -1]

Init ==
    /\ \E c \in Inputs : input = c.input /\ expr = c.expr
    /\ offset = 0 /\ line = 0 /\ column = 0
    /\ tokens = <<>>
    /\ pc = "lex"
    /\ pos = 0 /\ ppc = ""
    /\ termLeft = None /\ termT = NoToken
    /\ factorLeft = None /\ factorT = NoToken
    /\ ret = None /\ t = NoToken
    /\ heap = <<>> /\ tree = None
    /\ stack = <<>> /\ pass = 0 /\ applied = <<>> /\ results = <<>>
    /\ err = NoErr /\ exc = ""

(* ---------------------------- Lexer ------------------------------------ *)
\* one iteration of the while loop of tokenize()
tokenize ==
    /\ pc = "lex"
    /\ offset < Len(input)
    /\ LET c == input[offset + 1]
           m == NumberMatch(input, offset + 1)
       IN  IF c = "\n" THEN
               /\ line' = line + 1
               /\ offset' = offset + 1
               /\ column' = 0
               /\ tokens' = Append(tokens, EolToken(line + 1, 0))
           ELSE IF IsSpace(c) THEN
               /\ offset' = offset + 1
               /\ column' = column + 1
               /\ UNCHANGED <<line, tokens>>
           ELSE IF m > 0 THEN
               /\ offset' = offset + m
               /\ column' = column + m
               /\ tokens' = Append(tokens,
                      Token("NUMBER", IntV(IntOf(input, offset + 1, m)), line, column + m))
               /\ UNCHANGED line
           ELSE IF c \in OPERATOR THEN
               /\ offset' = offset + 1
               /\ column' = column + 1
               /\ tokens' = Append(tokens, Token("OPERATOR", StrV(c), line, column + 1))
               /\ UNCHANGED line
           ELSE
               /\ offset' = offset + 1
               /\ column' = column + 1
               /\ tokens' = Append(tokens, Token("char", StrV(c), line, column + 1))
               /\ UNCHANGED line
    /\ UNCHANGED <<input, expr, pc, parsevars, heap, evalvars, exc>>

\* the end of tokenize(): the loop is left and EOF is yielded
tokenizeEnd ==
    /\ pc = "lex"
    /\ offset >= Len(input)
    /\ offset' = offset + 1
    /\ column' = column + 1
    /\ tokens' = Append(tokens, EofToken(line, column + 1))
    /\ pc' = "lexed"
    /\ UNCHANGED <<input, expr, line, parsevars, heap, evalvars, exc>>

(* ---------------------------- Node ------------------------------------- *)
\* Node.__init__ with the two children exchanged
NewNode_Swapped(value, left, right) == [value |-> value, left |-> right, right |-> left]

\* Node.__init__
NewNode(value, left, right) == [value |-> value, left |-> left, right |-> right]

(* ---------------------------- Parser ----------------------------------- *)
\* Parser.__init__ once the generator is exhausted
ParserInit ==
    /\ pc = "lexed"
    /\ pos' = 0
    /\ pc' = "ready"
    /\ UNCHANGED <<input, expr, lexvars, ppc, termLeft, termT, factorLeft, factorT,
                   ret, t, tree, err, heap, evalvars, exc>>

\* Parser.peek: the token at pos, or None
peek == IF pos >= Len(tokens) THEN NoToken ELSE tokens[pos + 1]

\* the token lists the lookahead is compared with (Token == ignores line, column)
TERMOPS == { <<"OPERATOR", StrV("+")>> }

\* FACTOROPS that also lists the operator of term()
FACTOROPS_WithPlus == { <<"OPERATOR", StrV("*")>>, <<"OPERATOR", StrV("+")>> }

FACTOROPS == { <<"OPERATOR", StrV("*")>> }

\* Parser.parse: calls term(), which calls factor(), which calls primary()
parse ==
    /\ pc = "ready"
    /\ pc' = "parse"
    /\ ppc' = "primary"
    /\ termLeft' = None /\ termT' = NoToken
    /\ factorLeft' = None /\ factorT' = NoToken
    /\ UNCHANGED <<input, expr, lexvars, pos, ret, t, tree, err, heap, evalvars, exc>>

\* Parser.primary, with the Parser.consume and Parser.error it calls
primary ==
    /\ pc = "parse" /\ ppc = "primary"
    /\ IF pos >= Len(tokens) THEN
           \* consume() returns None and t.type raises
           /\ t' = NoToken
           /\ pc' = "raised" /\ exc' = "AttributeError"
           /\ UNCHANGED <<pos, ppc, ret, heap, err>>
       ELSE
           /\ t' = tokens[pos + 1]
           /\ pos' = pos + 1
           /\ IF t'.type = "NUMBER" THEN
                  /\ heap' = Append(heap, NewNode(t'.value, None, None))
                  /\ ret' = Len(heap) + 1
                  /\ ppc' = "factor"
                  /\ UNCHANGED <<pc, err, exc>>
              ELSE IF pos' >= Len(tokens) THEN
                  \* error(): self.tokens[self.pos] is out of range
                  /\ pc' = "raised" /\ exc' = "IndexError"
                  /\ UNCHANGED <<ppc, ret, heap, err>>
              ELSE
                  \* error(): message with the type of t and the position of
                  \* self.tokens[self.pos], then sys.exit(1)
                  /\ err' = [kind |-> t'.type,
                             line |-> tokens[pos' + 1].line,
                             column |-> tokens[pos' + 1].column]
                  /\ pc' = "exit"
                  /\ UNCHANGED <<ppc, ret, heap, exc>>
    /\ UNCHANGED <<input, expr, lexvars, termLeft, termT, factorLeft, factorT,
                   tree, evalvars>>

\* Parser.factor from the return of a primary() call to the next call or
\* to its own return
factor ==
    /\ pc = "parse" /\ ppc = "factor"
    /\ LET fold == factorT # NoToken
           left == IF fold THEN Len(heap) + 1 ELSE ret
       IN  /\ heap' = IF fold
                      THEN Append(heap, NewNode(factorT.value, factorLeft, ret))
                      ELSE heap
           /\ factorLeft' = left
           /\ IF Key(peek) \in FACTOROPS THEN
                  /\ factorT' = peek
                  /\ pos' = pos + 1
                  /\ ppc' = "primary"
                  /\ UNCHANGED ret
              ELSE
                  /\ ret' = left
                  /\ ppc' = "term"
                  /\ UNCHANGED <<factorT, pos>>
    /\ UNCHANGED <<input, expr, lexvars, pc, termLeft, termT, t, tree, err,
                   evalvars, exc>>

\* Parser.term from the return of a factor() call to the next call or to
\* its own return, where parse() stores the result in self.tree
term ==
    /\ pc = "parse" /\ ppc = "term"
    /\ LET fold == termT # NoToken
           left == IF fold THEN Len(heap) + 1 ELSE ret
       IN  /\ heap' = IF fold
                      THEN Append(heap, NewNode(termT.value, termLeft, ret))
                      ELSE heap
           /\ termLeft' = left
           /\ IF Key(peek) \in TERMOPS THEN
                  /\ termT' = peek
                  /\ pos' = pos + 1
                  /\ factorLeft' = None /\ factorT' = NoToken
                  /\ ppc' = "primary"
                  /\ UNCHANGED <<ret, tree, pc>>
              ELSE
                  /\ ret' = left
                  /\ tree' = left
                  /\ ppc' = ""
                  /\ pc' = "parsed"
                  /\ UNCHANGED <<termT, pos, factorLeft, factorT>>
    /\ UNCHANGED <<input, expr, lexvars, t, err, evalvars, exc>>

(* ---------------------------- evaluation ------------------------------- *)
\* number of postorder_apply passes that are run over the tree
MaxPasses == 2

ExcV(name) == [kind |-> "exc", n |-> 0, s |-> name]

RECURSIVE Repeat(_, _)
Repeat(s, n) == IF n <= 0 THEN "" ELSE s \o Repeat(s, n - 1)

\* Python's a + b on int and str operands
PyAdd(a, b) ==
    IF a.kind = "int" /\ b.kind = "int" THEN IntV(a.n + b.n)
    ELSE IF a.kind = "str" /\ b.kind = "str" THEN StrV(a.s \o b.s)
    ELSE ExcV("TypeError")

\* Python's a * b on int and str operands
PyMul(a, b) ==
    IF a.kind = "int" /\ b.kind = "int" THEN IntV(a.n * b.n)
    ELSE IF a.kind = "int" /\ b.kind = "str" THEN StrV(Repeat(b.s, a.n))
    ELSE IF a.kind = "str" /\ b.kind = "int" THEN StrV(Repeat(a.s, b.n))
    ELSE ExcV("TypeError")

\* node.value = int(node.value): an int is converted to the same int; a
\* str made of operator characters is no integer literal, int() raises
\* ValueError, the except clause passes and the value stays
PyInt(v) == IF v.kind = "int" THEN IntV(v.n) ELSE v

\* the assignments with only node.left cleared
Assign_LeftOnly(nd, v) == [nd EXCEPT !.value = v, !.left = None]

\* the assignments with no child cleared
Assign_KeepChildren(nd, v) == [nd EXCEPT !.value = v]

\* node.value = v; node.left = None; node.right = None
Assign(nd, v) == [nd EXCEPT !.value = v, !.left = None, !.right = None]

\* one of the two operator branches of ausrechnen on the node record nd in
\* heap h: the outcome is the node record, or the exception raised
Branch(h, nd, sym) ==
    IF nd.value # StrV(sym) THEN [node |-> nd, exc |-> ""]
    ELSE IF nd.left = None \/ nd.right = None THEN [node |-> nd, exc |-> "RuntimeError"]
    ELSE LET l == h[nd.left].value
             r == h[nd.right].value
             v == IF sym = "+" THEN PyAdd(l, r) ELSE PyMul(l, r)
         IN  IF v.kind = "exc" THEN [node |-> nd, exc |-> v.s]
             ELSE [node |-> Assign(nd, v), exc |-> ""]

\* ausrechnen(node) on node number n of heap h
Ausrechnen(h, n) ==
    LET a == Branch(h, h[n], "+")
        b == IF a.exc # "" THEN a ELSE Branch(h, a.node, "*")
    IN  IF b.exc # "" THEN b
        ELSE [node |-> [b.node EXCEPT !.value = PyInt(@)], exc |-> ""]

\* the children taken in the other order: right first, then left
ChildAt_RightFirst(nd, stage) == IF stage = 0 THEN nd.right ELSE nd.left

\* the child postorder_apply looks at in stage 0 (left) and stage 1 (right)
ChildAt(nd, stage) == IF stage = 0 THEN nd.left ELSE nd.right

Frame(n) == [node |-> n, stage |-> 0]

\* the call tree.postorder_apply(ausrechnen) on the root
Evaluate ==
    /\ pc \in {"parsed", "evaluated"}
    /\ pass < MaxPasses
    /\ pass' = pass + 1
    /\ stack' = <<Frame(tree)>>
    /\ applied' = <<>>
    /\ pc' = "eval"
    /\ UNCHANGED <<input, expr, lexvars, parsevars, heap, results, exc>>

\* postorder_apply: the test of one child and the recursive call on it
postorder_apply ==
    /\ pc = "eval" /\ stack # <<>>
    /\ LET top == stack[Len(stack)]
           child == ChildAt(heap[top.node], top.stage)
           rest == [stack EXCEPT ![Len(stack)].stage = top.stage + 1]
       IN  /\ top.stage < 2
           /\ stack' = IF child # None THEN Append(rest, Frame(child)) ELSE rest
    /\ UNCHANGED <<input, expr, lexvars, pc, parsevars, heap, pass, applied,
                   results, exc>>

\* postorder_apply: the call fn(self) with fn = ausrechnen, and the return
ausrechnen ==
    /\ pc = "eval" /\ stack # <<>>
    /\ LET top == stack[Len(stack)]
           r == Ausrechnen(heap, top.node)
       IN  /\ top.stage = 2
           /\ applied' = Append(applied, top.node)
           /\ IF r.exc # "" THEN
                  /\ pc' = "raised" /\ exc' = r.exc
                  /\ UNCHANGED <<heap, stack, results>>
              ELSE
                  /\ heap' = [heap EXCEPT ![top.node] = r.node]
                  /\ stack' = SubSeq(stack, 1, Len(stack) - 1)
                  /\ exc' = exc
                  /\ IF Len(stack) = 1
                     THEN pc' = "evaluated" /\ results' = Append(results, r.node.value)
                     ELSE UNCHANGED <<pc, results>>
    /\ UNCHANGED <<input, expr, lexvars, parsevars, pass>>

(* ---------------------------- specification ---------------------------- *)
Next ==
    \/ tokenize
    \/ tokenizeEnd
    \/ ParserInit
    \/ parse
    \/ primary
    \/ factor
    \/ term
    \/ Evaluate
    \/ postorder_apply
    \/ ausrechnen

Spec == Init /\ [][Next]_vars

\* the program is one sequential run: a step that can be taken is taken
FairSpec == Spec /\ WF_vars(Next)

(* ---------------------------- properties ------------------------------ *)
\* standard arithmetic on nums[1] ops[1] nums[2] ...: the sum of the
\* products of the maximal runs of operands joined by '*'
RECURSIVE SumOfProducts(_, _, _, _, _)
SumOfProducts(nums, ops, i, prod, sum) ==
    IF i > Len(nums) THEN sum + prod
    ELSE IF ops[i - 1] = "*"
         THEN SumOfProducts(nums, ops, i + 1, prod * nums[i], sum)
         ELSE SumOfProducts(nums, ops, i + 1, nums[i], sum + prod)

StdValue(e) == SumOfProducts(e.nums, e.ops, 2, e.nums[1], 0)

Failed == pc \in {"exit", "raised"}

IsOp(v) == v \in {StrV("+"), StrV("*")}

IsLeaf(h, n) == h[n].left = None /\ h[n].right = None /\ h[n].value.kind = "int"

\* C1: an expression N1 op1 ... Nk whose tokens are separated by spaces
\* only never fails, and the root holds the value of standard arithmetic
\* ('*' before '+') once postorder_apply(ausrechnen) has run.
C1_StandardArithmetic ==
    (expr.valid /\ expr.ws = "space") =>
        /\ ~Failed
        /\ pc = "evaluated" => heap[tree].value = IntV(StdValue(expr))

\* an evaluated expression in which '+' is followed by '*'
C1_Witness ==
    /\ expr.valid /\ expr.ws = "space" /\ pc = "evaluated" /\ pass = 1
    /\ \E i \in 1..(Len(expr.ops) - 1) : expr.ops[i] = "+" /\ expr.ops[i + 1] = "*"

\* C2: when the lexer produced an Unknown ('char') token, the parse ends
\* in the syntax-error outcome and returns no tree.
C2_UnknownTokenRejected ==
    ((\E i \in 1..Len(tokens) : tokens[i].type = "char")
        /\ pc \notin {"lex", "lexed", "ready", "parse"})
    => (pc = "exit" /\ tree = None)

\* C3: when primary() consumed the end of the input where it needs a
\* number, the parse ends in the outcome of Parser.error (message printed,
\* exit) and in no other failure.
C3_ExhaustedIsSyntaxError ==
    (t.type = "EOF" /\ pc # "parse") => (pc = "exit" /\ err.kind = "EOF")

\* C4: the error reported for a token rejected by primary() carries the
\* kind of that token and the line and column recorded for that token.
C4_ErrorAtOffendingToken ==
    pc = "exit" => (err.kind = t.type /\ err.line = t.line /\ err.column = t.column)

\* C5: an expression N1 op1 ... Nk whose tokens are separated or preceded
\* by newlines yields the same integer as with spaces.
C5_NewlinesSeparate ==
    (expr.valid /\ expr.ws = "newline") =>
        /\ ~Failed
        /\ pc = "evaluated" => heap[tree].value = IntV(StdValue(expr))

\* the EOF token is the last token and there is no other one
OneEofLast ==
    /\ Len(tokens) >= 1
    /\ \A i \in 1..Len(tokens) : tokens[i].type = "EOF" <=> i = Len(tokens)

\* C6: tokenize() terminates without raising on every input, every step
\* of the scan strictly increases the offset, and the token sequence holds
\* exactly one EOF token, which is the last one.
C6_TokenizeTerminates ==
    /\ <>(pc # "lex")
    /\ [](pc # "lex" => OneEofLast)
    /\ [](pc \in {"lex", "lexed"} => exc = "")
    /\ [][pc = "lex" => offset' > offset]_vars

\* the lexer is done with an input that had a newline and an unknown character
C6_Witness ==
    /\ pc = "lexed"
    /\ \E i \in 1..Len(tokens) : tokens[i].type = "EOL"
    /\ \E i \in 1..Len(tokens) : tokens[i].type = "char"
    /\ \E i \in 1..Len(tokens) : tokens[i].type = "NUMBER"

RECURSIVE FactorShape(_, _)
\* a leaf, or a '*' node over a factor on the left and a leaf on the right
FactorShape(h, n) ==
    \/ IsLeaf(h, n)
    \/ /\ h[n].value = StrV("*")
       /\ h[n].left # None /\ h[n].right # None
       /\ IsLeaf(h, h[n].right)
       /\ FactorShape(h, h[n].left)

RECURSIVE TermShape(_, _)
\* a factor, or a '+' node over a term on the left and a factor on the right
TermShape(h, n) ==
    \/ FactorShape(h, n)
    \/ /\ h[n].value = StrV("+")
       /\ h[n].left # None /\ h[n].right # None
       /\ FactorShape(h, h[n].right)
       /\ TermShape(h, h[n].left)

RECURSIVE Inorder(_, _)
Inorder(h, n) ==
    IF n = None THEN <<>>
    ELSE Inorder(h, h[n].left) \o <<h[n].value>> \o Inorder(h, h[n].right)

\* C7: the tree parse() returns is left-nested: the right child of a '*'
\* node is a leaf, the right child of a '+' node holds no '+', no '*' node
\* has a '+' below it, and read in order the tree is the consumed tokens.
C7_LeftAssociativeShape ==
    pc = "parsed" =>
        /\ TermShape(heap, tree)
        /\ Inorder(heap, tree) = [i \in 1..pos |-> tokens[i].value]

\* a returned tree (a*b) + (c*d)
C7_Witness ==
    /\ pc = "parsed"
    /\ heap[tree].value = StrV("+")
    /\ heap[heap[tree].left].value = StrV("*")
    /\ heap[heap[tree].right].value = StrV("*")

\* C8: a second pass over the tree that the first pass reduced leaves the
\* root the same integer leaf.
C8_SecondPassNoOp ==
    (pc = "evaluated" /\ pass >= 2) =>
        /\ results[pass] = results[1]
        /\ heap[tree].value = results[1]
        /\ IsLeaf(heap, tree)

\* the second pass is over, on a tree that had operator nodes
C8_Witness == pc = "evaluated" /\ pass = 2 /\ Len(heap) >= 3

IndexIn(seq, x) == CHOOSE i \in 1..Len(seq) : seq[i] = x

\* C9: in the first pass ausrechnen is called once on every node, on an
\* operator node only after its left and then its right child were reduced
\* to integer leaves, and the pass ends with the root an integer leaf.
C9_PostorderOnce ==
    (pc \in {"eval", "evaluated"} /\ pass = 1) =>
        /\ \A i, j \in 1..Len(applied) : applied[i] = applied[j] => i = j
        /\ (stack # <<>> /\ stack[Len(stack)].stage = 2) =>
              LET n == stack[Len(stack)].node
                  l == heap[n].left
                  r == heap[n].right
              IN  /\ \A i \in 1..Len(applied) : applied[i] # n
                  /\ IsOp(heap[n].value) =>
                        /\ l # None /\ r # None
                        /\ IsLeaf(heap, l) /\ IsLeaf(heap, r)
                        /\ \E i \in 1..Len(applied) : applied[i] = l
                        /\ applied[Len(applied)] = r
                        /\ IndexIn(applied, l) < Len(applied)
        /\ pc = "evaluated" =>
              /\ {applied[i] : i \in 1..Len(applied)} = 1..Len(heap)
              /\ IsLeaf(heap, tree)

\* the first pass is over a tree of at least two operator nodes
C9_Witness == pc = "evaluated" /\ pass = 1 /\ Len(applied) >= 5

\* C10: from the start of parsing to the end of evaluation a node holds an
\* operator symbol exactly when it has both children, no node has exactly
\* one child, and ausrechnen never raises its missing-child error.
C10_OperatorIffBinary ==
    /\ \A n \in 1..Len(heap) :
          /\ IsOp(heap[n].value) <=> (heap[n].left # None /\ heap[n].right # None)
          /\ heap[n].left = None <=> heap[n].right = None
    /\ exc # "RuntimeError"

\* evaluation is under way: some nodes are reduced, some still are operators
C10_Witness ==
    /\ pc = "eval" /\ Len(applied) >= 3
    /\ \E n \in 1..Len(heap) : IsOp(heap[n].value)

====
